---- MODULE Spec2Model ----
(***************************************************************************)
(* Model of src/agents/run.py: the single-pass agent runner that lists     *)
(* queued Notion pages, marks each Running, calls the model, publishes a   *)
(* Google Doc and writes Done / Needs Review back.                         *)
(*                                                                         *)
(* Confidences and gates are real numbers in the code; here they are       *)
(* integers counting hundredths (0.7 is 70), so comparisons are exact.     *)
(* An optional (None-able) Python value is <<>> for None and <<x>> for x.  *)
(***************************************************************************)
EXTENDS Integers, Sequences, FiniteSets, TLC

\* ------------------------------------------------------------------ bounds
NumJobs == 2
NoteSlack == 30
MaxInputs == 2

Jobs == 1..NumJobs
Runners == {"r1", "r2"}

\* ------------------------------------------------------- program constants
DefaultGate == 70
DefaultConfidence == 70
OfflineConfidence == 70
ErrorConfidence == 0
NoteLimit == 2000

None == <<>>
Some(x) == <<x>>

Min(a, b) == IF a <= b THEN a ELSE b

\* ---------------------------------------------------------------- values
Modes == {None, Some("Auto"), Some("Needs Review")}
Gates == {None, Some(0), Some(80)}

OldUrl == "https://docs.google.com/document/d/old/edit"
OldNote == <<"Output posted.", 70, 55>>
NoteStarted == <<"Agent started.">>

\* The fields of a page the run reads or writes.
FreshFields == [proofUrl |-> None, confidence |-> None, note |-> None]
StaleFields == [proofUrl |-> Some(OldUrl), confidence |-> Some(55),
                note |-> Some(OldNote)]

MkJob(status, due, mode, gate, f) ==
    [status |-> status, due |-> due, mode |-> mode, gate |-> gate,
     proofUrl |-> f.proofUrl, confidence |-> f.confidence, note |-> f.note]

\* The mode and gate of a page that is Queued and due: every gate under Auto,
\* and each other mode with a gate that the confidences of the model reach.
DuePairs ==
    { <<Some("Auto"), g>> : g \in Gates }
    \cup { <<Some("Needs Review"), None>>, <<None, Some(80)>> }

\* A page that is Queued and due may carry the proof fields of an earlier run
\* (a page put back to Queued by hand). The mode and gate of a page the
\* listing never returns are never read, so one representative stands for
\* each such page.
InitialJobs ==
    { MkJob("Queued", TRUE, p[1], p[2], FreshFields) : p \in DuePairs }
    \cup { MkJob("Queued", TRUE, Some("Auto"), None, StaleFields),
           MkJob("Queued", FALSE, Some("Auto"), None, FreshFields),
           MkJob("Running", TRUE, Some("Auto"), None,
                 [FreshFields EXCEPT !.note = Some(NoteStarted)]),
           MkJob("Done", TRUE, Some("Auto"), None, StaleFields) }

\* Process environment read at import (lines 22-24, 74-76).
Envs ==
    { [token |-> TRUE, db |-> TRUE, openai |-> c[1], drive |-> c[2], folder |-> c[3]] :
        c \in {<<FALSE, FALSE, FALSE>>, <<TRUE, FALSE, FALSE>>,
               <<FALSE, TRUE, TRUE>>, <<TRUE, TRUE, FALSE>>} }
    \cup { [token |-> t[1], db |-> t[2], openai |-> FALSE, drive |-> FALSE,
            folder |-> FALSE] :
            t \in {<<FALSE, TRUE>>, <<TRUE, FALSE>>, <<FALSE, FALSE>>} }

NoEnv == [token |-> FALSE, db |-> FALSE, openai |-> FALSE, drive |-> FALSE,
          folder |-> FALSE]

VARIABLES queue, queue0, log, pc, env, items, idx, loc

vars == <<queue, queue0, log, pc, env, items, idx, loc>>

\* ------------------------------------------------------ the Notion queue
\* notion_get_prop for the "select" and "number" kinds: the value, or None
\* when the property is missing or empty.
notion_get_prop(page, prop) == page[prop]

\* Python's `x or d` on an optional string and on an optional number.
OrStr(v, d) == IF v = None \/ v[1] = "" THEN d ELSE v[1]
OrNum(v, d) == IF v = None \/ v[1] = 0 THEN d ELSE v[1]

\* A slice that stops one short.
Truncate_short(note) == SubSeq(note, 1, Min(Len(note), NoteLimit - 1))

\* note[:2000]
Truncate(note) == SubSeq(note, 1, Min(Len(note), NoteLimit))

\* A payload that carries the status alone.
update_props_status_only(status, proof_url, confidence, note) ==
    [Status |-> Some(status), ProofURL |-> None, Confidence |-> None,
     ProofNote |-> None]

\* A payload that carries every property, None ones included.
update_props_all(status, proof_url, confidence, note) ==
    [Status     |-> Some(status),
     ProofURL   |-> Some(proof_url),
     Confidence |-> Some(confidence),
     ProofNote  |-> IF note # None THEN Some(Some(Truncate(note[1]))) ELSE None]

\* The "properties" payload notion_update_status builds: a key is absent
\* (None) or present with its value (lines 131-139).
update_props(status, proof_url, confidence, note) ==
    [Status     |-> Some(status),
     ProofURL   |-> IF proof_url # None THEN Some(proof_url) ELSE None,
     Confidence |-> IF confidence # None THEN Some(confidence) ELSE None,
     ProofNote  |-> IF note # None THEN Some(Some(Truncate(note[1]))) ELSE None]

\* PATCH /v1/pages/{id}: the properties present in the payload replace the
\* stored ones, the others stay.
PatchPage(job, props) ==
    [job EXCEPT
       !.status     = IF props.Status = None THEN @ ELSE props.Status[1],
       !.proofUrl   = IF props.ProofURL = None THEN @ ELSE props.ProofURL[1],
       !.confidence = IF props.Confidence = None THEN @ ELSE props.Confidence[1],
       !.note       = IF props.ProofNote = None THEN @ ELSE props.ProofNote[1]]

\* notion_update_status when the PATCH succeeds: the queue afterwards.
notion_update_status(q, page_id, status, proof_url, confidence, note) ==
    [q EXCEPT ![page_id] =
        PatchPage(@, update_props(status, proof_url, confidence, note))]

\* A filter that takes the Running pages back as well.
IsDue_or_running(job) == job.status \in {"Queued", "Running"} /\ job.due

\* A filter on the status alone.
IsDue_status_only(job) == job.status = "Queued"

\* The filter of notion_query_queued: Status equals Queued and Due on or
\* before today.
IsDue(job) == job.status = "Queued" /\ job.due

\* The page object the listing returns for job j: a snapshot of its fields.
PageOf(q, j) == [id |-> j, PublishMode |-> q[j].mode, ConfidenceGate |-> q[j].gate]

\* The sequence of the elements of a set of jobs, by ascending id.
RECURSIVE Ascending(_)
Ascending(S) ==
    IF S = {} THEN <<>>
    ELSE LET m == CHOOSE x \in S : \A y \in S : x <= y
         IN  <<m>> \o Ascending(S \ {m})

\* The results of notion_query_queued. Notion's order is its own; the jobs
\* of Init are interchangeable, so the order by id stands for every order.
notion_query_queued(q) ==
    LET due == Ascending({j \in Jobs : IsDue(q[j])})
    IN  [i \in 1..Len(due) |-> PageOf(q, due[i])]

\* ----------------------------------------------------------- the model
\* A JSON value of the model's answer: a missing key, null, a string, a
\* number (hundredths), a list of n elements.
Absent == <<"absent">>
Null == <<"null">>
Str(s) == <<"str", s>>
Num(n) == <<"num", n>>
JList(n) == <<"list", n>>

TextValues == {Absent, Str(""), Str(" "), Str("body"), JList(1)}
ConfidenceValues == {Absent, Null, Num(0), Num(90), Str("0.9"), Str("high")}

\* What the provider does on one call: the client constructor raises, the
\* request raises, or an output text comes back that is a JSON object, some
\* other JSON value, prose around a JSON object, prose around braces that do
\* not parse, prose without braces, or no text at all.
ModelResponses ==
    { [kind |-> k, text |-> Absent, confidence |-> Absent] :
        k \in {"ctor_raise", "api_raise", "json_nondict", "embedded_invalid",
               "no_json", "output_none"} }
    \cup { [kind |-> "json_dict", text |-> t, confidence |-> c] :
             t \in TextValues, c \in ConfidenceValues }
    \cup { [kind |-> "embedded_dict", text |-> Str("body"), confidence |-> Num(90)] }

\* Python truthiness of a JSON value, and float() of one.
Truthy(v) ==
    CASE v[1] = "str"  -> v[2] # ""
      [] v[1] = "num"  -> v[2] # 0
      [] v[1] = "list" -> v[2] # 0
      [] OTHER         -> FALSE

FloatOfString(s) == IF s = "0.9" THEN <<"ok", 90>> ELSE <<"raise">>

Float(v) ==
    CASE v[1] = "num" -> <<"ok", v[2]>>
      [] v[1] = "str" -> FloatOfString(v[2])
      [] OTHER        -> <<"raise">>

\* dict.get(key, default) on the parsed object.
Get(v, default) == IF v = Absent THEN default ELSE v

OfflineResult ==
    [raised |-> FALSE, text |-> Str("[OFFLINE DUMMY OUTPUT]"),
     confidence |-> Num(OfflineConfidence)]
ErrorResult ==
    [raised |-> FALSE, text |-> Str("[MODEL ERROR]"),
     confidence |-> Num(ErrorConfidence)]
Raised == [raised |-> TRUE, text |-> Absent, confidence |-> Absent]

\* call_model: the dict it returns, or the exception it lets out.
call_model(e, resp) ==
    IF ~e.openai THEN OfflineResult
    ELSE IF resp.kind = "ctor_raise" THEN Raised
    ELSE IF resp.kind \notin {"json_dict", "embedded_dict"} THEN ErrorResult
    ELSE LET got  == Get(resp.text, Null)
             text == IF Truthy(got) THEN got ELSE Str("")
             conf == Float(Get(resp.confidence, Num(DefaultConfidence)))
         IN  IF conf[1] = "raise" THEN ErrorResult
             ELSE [raised |-> FALSE, text |-> text, confidence |-> Num(conf[2])]

\* Whether an exception is raised while call_model runs past the offline
\* fallback: by the constructor, by the request, by the parsing of the
\* output, by the dict check or by float().
ModelFails(e, resp) ==
    /\ e.openai
    /\ \/ resp.kind \notin {"json_dict", "embedded_dict"}
       \/ Float(Get(resp.confidence, Num(DefaultConfidence)))[1] = "raise"

\* str.strip() on the strings of the model.
Strip(s) == IF s = " " THEN "" ELSE s

\* ------------------------------------------------------- the publisher
PlaceholderUrl == "about:blank#title"
ErrorUrl == "about:blank#error"
DocUrl == "https://docs.google.com/document/d/new/edit"

\* What the document service does on one call: whether building the clients
\* raises, which request fails (if any) and with which exception.
PublishOutcomes ==
    { [init |-> "raise", fail |-> "none", exc |-> "other"],
      [init |-> "ok", fail |-> "none", exc |-> "other"] }
    \cup [init : {"ok"},
          fail : {"create", "insert", "move", "perm"},
          exc  : {"HttpError", "other"}]

\* init_gdrive_clients: no clients, the clients, or an exception (json.loads
\* of DRIVE_SA_JSON, the credentials, build).
init_gdrive_clients(e, out) ==
    IF ~e.drive THEN "none"
    ELSE IF out.init = "raise" THEN "raise"
    ELSE "clients"

\* create_google_doc: the URL it returns, or the exception it lets out.
create_google_doc(e, out) ==
    LET clients == init_gdrive_clients(e, out)
        skipped == out.fail = "move" /\ ~e.folder
    IN  IF clients = "raise" THEN [raised |-> TRUE, url |-> None]
        ELSE IF clients = "none" THEN [raised |-> FALSE, url |-> Some(PlaceholderUrl)]
        ELSE IF out.fail = "none" \/ skipped
             THEN [raised |-> FALSE, url |-> Some(DocUrl)]
        ELSE IF out.exc = "HttpError"
             THEN [raised |-> FALSE, url |-> Some(ErrorUrl)]
        ELSE [raised |-> TRUE, url |-> None]

\* ------------------------------------------------------------- the gate
\* The gate with a strict comparison.
main_status_strict(mode, conf, gate) ==
    IF mode = "Auto" /\ conf > gate THEN "Done" ELSE "Needs Review"

\* Line 294.
main_status(mode, conf, gate) ==
    IF mode = "Auto" /\ conf >= gate THEN "Done" ELSE "Needs Review"

\* Line 295: the note, with gate and conf formatted to two decimals (exact
\* on hundredths).
main_note(gate, conf) == <<"Output posted.", gate, conf>>

\* ------------------------------------------------------ the prompt
\* An input reference is a Notion file object: it has the key "external" or
\* the key "file" or neither, and the object under the key has a url that is
\* missing, empty or a link. A key is Absent or <<"obj", url>>.
Obj(url) == <<"obj", url>>
UrlValues == {Absent, Str(""), Str("https://x"), Str("https://y")}
RefShapes ==
    { [external |-> Absent, file |-> Absent] }
    \cup { [external |-> Obj(u), file |-> Absent] : u \in UrlValues }
    \cup { [external |-> Absent, file |-> Obj(u)] : u \in UrlValues }

\* The line of a key without the test on the url.
KeyLine_unfiltered(f, k) ==
    IF f[k] = Absent THEN <<>>
    ELSE LET url == f[k][2]
         IN  IF url # Absent THEN << <<"-", url[2]>> >> ELSE <<>>

\* Lines 263-267 for one reference and one key: the line appended, if any.
KeyLine(f, k) ==
    IF f[k] = Absent THEN <<>>
    ELSE LET url == f[k][2]
         IN  IF Truthy(url) THEN << <<"-", url[2]>> >> ELSE <<>>

\* Lines 262-267: the lines of the references, in order.
RECURSIVE InputLines(_)
InputLines(inputs) ==
    IF inputs = <<>> THEN <<>>
    ELSE KeyLine(Head(inputs), "external") \o KeyLine(Head(inputs), "file")
         \o InputLines(Tail(inputs))

\* build_prompt: the lines it joins, each a pair of a label and a text.
build_prompt(name, agent_type, context, inputs, publish_mode) ==
    << <<"JOB:", name>>,
       <<"AGENT TYPE:", IF agent_type = "" THEN "General" ELSE agent_type>>,
       <<"PUBLISH MODE:", IF publish_mode = "" THEN "Needs Review" ELSE publish_mode>> >>
    \o (IF context # "" THEN << <<"CONTEXT:", "">>, <<"", context>> >> ELSE <<>>)
    \o (IF inputs # <<>> THEN << <<"INPUT LINKS:", "">> >> \o InputLines(inputs)
        ELSE <<>>)
    \o << <<"DELIVERABLE:", "">> >>

\* ------------------------------------------------------------ the run
\* log records every external call a runner made, in order: the listing,
\* the status writes, the model calls and the publish calls, each with how
\* it ended. queue0 is the queue as it was before any run.
Event(r, op, job, status, out) ==
    [r |-> r, op |-> op, job |-> job, status |-> status, out |-> out]

NoLoc == [mode |-> "", gate |-> 0, text |-> "", conf |-> 0, proof_url |-> None]

Init ==
    /\ queue \in [Jobs -> InitialJobs]
    /\ queue0 = queue
    /\ log = <<>>
    /\ pc = [r \in Runners |-> "idle"]
    /\ env = [r \in Runners |-> NoEnv]
    /\ items = [r \in Runners |-> <<>>]
    /\ idx = [r \in Runners |-> 1]
    /\ loc = [r \in Runners |-> NoLoc]

\* An error response that is swallowed: the loop goes on.
raise_for_status_swallowed(r) == pc' = [pc EXCEPT ![r] = "loop"]

\* r.raise_for_status() on an error response: the exception leaves main().
raise_for_status(r) == pc' = [pc EXCEPT ![r] = "aborted"]

\* An exception out of call_model, .strip() or create_google_doc leaves
\* main() as well.
uncaught(r) == pc' = [pc EXCEPT ![r] = "crashed"]

\* A start without the assert.
Start_unchecked(r) ==
    /\ pc[r] = "idle"
    /\ \E e \in Envs :
         /\ env' = [env EXCEPT ![r] = e]
         /\ pc' = [pc EXCEPT ![r] = "list"]
    /\ UNCHANGED <<queue, queue0, log, items, idx, loc>>

\* The process starts: the module reads its environment, main() asserts
\* NOTION_TOKEN and DB_ID (line 272).
Start(r) ==
    /\ pc[r] = "idle"
    /\ \E e \in Envs :
         /\ env' = [env EXCEPT ![r] = e]
         /\ pc' = [pc EXCEPT ![r] = IF e.token /\ e.db THEN "list" ELSE "assert_failed"]
    /\ UNCHANGED <<queue, queue0, log, items, idx, loc>>

\* items = notion_query_queued() (line 273); raise_for_status ends the run.
List(r) ==
    /\ pc[r] = "list"
    /\ \/ /\ items' = [items EXCEPT ![r] = notion_query_queued(queue)]
          /\ log' = Append(log, Event(r, "list", 0, "", "ok"))
          /\ pc' = [pc EXCEPT ![r] = "loop"]
       \/ /\ log' = Append(log, Event(r, "list", 0, "", "raise"))
          /\ raise_for_status(r)
          /\ UNCHANGED items
    /\ idx' = [idx EXCEPT ![r] = 1]
    /\ UNCHANGED <<queue, queue0, env, loc>>

\* The next page of the loop sent to the model before Running is written.
WriteRunning_deferred(r) ==
    /\ pc[r] = "loop"
    /\ idx[r] <= Len(items[r])
    /\ LET page == items[r][idx[r]]
           mode == OrStr(notion_get_prop(page, "PublishMode"), "Needs Review")
           gate == OrNum(notion_get_prop(page, "ConfidenceGate"), DefaultGate)
       IN  loc' = [loc EXCEPT ![r] = [NoLoc EXCEPT !.mode = mode, !.gate = gate]]
    /\ pc' = [pc EXCEPT ![r] = "model"]
    /\ UNCHANGED <<queue, queue0, log, env, items, idx>>

\* The next page of the for loop: read its properties (lines 276-282) and
\* write Running (line 285).
WriteRunning(r) ==
    /\ pc[r] = "loop"
    /\ idx[r] <= Len(items[r])
    /\ LET page == items[r][idx[r]]
           mode == OrStr(notion_get_prop(page, "PublishMode"), "Needs Review")
           gate == OrNum(notion_get_prop(page, "ConfidenceGate"), DefaultGate)
       IN  /\ loc' = [loc EXCEPT ![r] = [NoLoc EXCEPT !.mode = mode, !.gate = gate]]
           /\ \/ /\ queue' = notion_update_status(queue, page.id, "Running",
                                                  None, None, Some(NoteStarted))
                 /\ log' = Append(log, Event(r, "update", page.id, "Running", "ok"))
                 /\ pc' = [pc EXCEPT ![r] = "model"]
              \/ /\ log' = Append(log, Event(r, "update", page.id, "Running", "raise"))
                 /\ raise_for_status(r)
                 /\ UNCHANGED queue
    /\ UNCHANGED <<queue0, env, items, idx>>

\* The model called and then called again for the same page.
CallModel_retry(r) ==
    /\ pc[r] = "model"
    /\ log' = Append(log, Event(r, "model", items[r][idx[r]].id, "answered", "ok"))
    /\ UNCHANGED <<queue, queue0, pc, env, items, idx, loc>>

\* result = call_model(prompt), then text and conf (lines 288-290). An
\* exception out of call_model, or out of .strip() on a text that is no
\* string, ends the run.
CallModel(r) ==
    /\ pc[r] = "model"
    /\ \E resp \in ModelResponses :
         LET page   == items[r][idx[r]]
             result == call_model(env[r], resp)
             crash  == result.raised \/ result.text[1] # "str"
             how    == IF ModelFails(env[r], resp) THEN "failed" ELSE "answered"
             out    == IF result.raised THEN "raise" ELSE "ok"
         IN  /\ log' = Append(log, Event(r, "model", page.id, how, out))
             /\ IF crash
                THEN /\ uncaught(r)
                     /\ UNCHANGED loc
                ELSE /\ pc' = [pc EXCEPT ![r] = "publish"]
                     /\ loc' = [loc EXCEPT ![r].text = Strip(result.text[2]),
                                           ![r].conf = result.confidence[2]]
    /\ UNCHANGED <<queue, queue0, env, items, idx>>

\* proof_url = create_google_doc(...) (line 292); an exception ends the run.
Publish(r) ==
    /\ pc[r] = "publish"
    /\ \E o \in PublishOutcomes :
         LET page == items[r][idx[r]]
             res  == create_google_doc(env[r], o)
         IN  /\ log' = Append(log, Event(r, "publish", page.id, "",
                                         IF res.raised THEN "raise" ELSE "ok"))
             /\ IF res.raised
                THEN /\ uncaught(r)
                     /\ UNCHANGED loc
                ELSE /\ pc' = [pc EXCEPT ![r] = "terminal"]
                     /\ loc' = [loc EXCEPT ![r].proof_url = res.url, ![r].text = ""]
    /\ UNCHANGED <<queue, queue0, env, items, idx>>

\* The loop going on to the next page with the terminal write left undone.
WriteTerminal_async(r) ==
    /\ pc[r] = "terminal"
    /\ pc' = [pc EXCEPT ![r] = "loop"]
    /\ idx' = [idx EXCEPT ![r] = @ + 1]
    /\ loc' = [loc EXCEPT ![r] = NoLoc]
    /\ UNCHANGED <<queue, queue0, log, env, items>>

\* The terminal write followed by the same page again.
WriteTerminal_again(r) ==
    /\ pc[r] = "terminal"
    /\ LET page   == items[r][idx[r]]
           l      == loc[r]
           status == main_status(l.mode, l.conf, l.gate)
       IN  /\ queue' = notion_update_status(queue, page.id, status, l.proof_url,
                                            Some(l.conf),
                                            Some(main_note(l.gate, l.conf)))
           /\ log' = Append(log, Event(r, "update", page.id, status, "ok"))
    /\ pc' = [pc EXCEPT ![r] = "loop"]
    /\ loc' = [loc EXCEPT ![r] = NoLoc]
    /\ UNCHANGED <<queue0, env, items, idx>>

\* The gate and the terminal write (lines 294-295), then the next page.
WriteTerminal(r) ==
    /\ pc[r] = "terminal"
    /\ LET page   == items[r][idx[r]]
           l      == loc[r]
           status == main_status(l.mode, l.conf, l.gate)
       IN  \/ /\ queue' = notion_update_status(queue, page.id, status, l.proof_url,
                                               Some(l.conf),
                                               Some(main_note(l.gate, l.conf)))
              /\ log' = Append(log, Event(r, "update", page.id, status, "ok"))
              /\ pc' = [pc EXCEPT ![r] = "loop"]
              /\ idx' = [idx EXCEPT ![r] = @ + 1]
              /\ loc' = [loc EXCEPT ![r] = NoLoc]
           \/ /\ log' = Append(log, Event(r, "update", page.id, status, "raise"))
              /\ raise_for_status(r)
              /\ UNCHANGED <<queue, idx, loc>>
    /\ UNCHANGED <<queue0, env, items>>

\* The for loop is exhausted: main() returns.
Finish(r) ==
    /\ pc[r] = "loop"
    /\ idx[r] > Len(items[r])
    /\ pc' = [pc EXCEPT ![r] = "done"]
    /\ UNCHANGED <<queue, queue0, log, env, items, idx, loc>>

\* One run of main() by one process.
Next ==
    \/ Start("r1")
    \/ List("r1")
    \/ WriteRunning("r1")
    \/ CallModel("r1")
    \/ Publish("r1")
    \/ WriteTerminal("r1")
    \/ Finish("r1")

Spec == Init /\ [][Next]_vars

\* ------------------------------------------------------ one run, then another
\* A step of the run of r.
Process(r) ==
    \/ List(r)
    \/ WriteRunning(r)
    \/ CallModel(r)
    \/ Publish(r)
    \/ WriteTerminal(r)
    \/ Finish(r)

Step(r) == Start(r) \/ Process(r)

\* The process of r has exited: main() returned or an exception left it.
Ended(r) == pc[r] \in {"done", "aborted", "crashed", "assert_failed"}

\* The run of r1, and once its process has exited a later run, r2.
NextRuns ==
    \/ Step("r1")
    \/ Ended("r1") /\ Step("r2")

\* The pages before the first run: Queued and due, Queued and not due, or
\* already Running.
RunsJobs ==
    { MkJob("Queued", TRUE, Some("Auto"), None, FreshFields),
      MkJob("Queued", FALSE, Some("Auto"), None, FreshFields),
      MkJob("Running", TRUE, Some("Auto"), None,
            [FreshFields EXCEPT !.note = Some(NoteStarted)]) }

InitRuns ==
    /\ queue \in [Jobs -> RunsJobs]
    /\ queue0 = queue
    /\ log = <<>>
    /\ pc = [r \in Runners |-> "idle"]
    /\ env = [r \in Runners |-> NoEnv]
    /\ items = [r \in Runners |-> <<>>]
    /\ idx = [r \in Runners |-> 1]
    /\ loc = [r \in Runners |-> NoLoc]

RunsSpec == InitRuns /\ [][NextRuns]_vars

\* --------------------------------------------------- two runs at once
\* Two processes that passed the assert, each about to list, both without
\* OPENAI_API_KEY and without Drive credentials; their steps interleave at
\* the calls. The two processes meet on the first two pages; the pages after
\* them are Running already.
Contended == {1, 2}
BothQueues ==
    { q \in [Jobs -> RunsJobs] :
        \A j \in Jobs \ Contended : q[j].status = "Running" }

InitBoth ==
    /\ queue \in BothQueues
    /\ queue0 = queue
    /\ log = <<>>
    /\ pc = [r \in Runners |-> "list"]
    /\ env = [r \in Runners |->
                [token |-> TRUE, db |-> TRUE, openai |-> FALSE, drive |-> FALSE,
                 folder |-> FALSE]]
    /\ items = [r \in Runners |-> <<>>]
    /\ idx = [r \in Runners |-> 1]
    /\ loc = [r \in Runners |-> NoLoc]

NextBoth == \E r \in Runners : Process(r)

BothSpec == InitBoth /\ [][NextBoth]_vars

\* ------------------------------------------- the functions on their own
\* One call of notion_update_status, call_model or build_prompt on an input
\* drawn from a bounded set. loc of r1 holds the function, its argument and,
\* once it returned, its result.
MkNote(n) == [i \in 1..n |-> i % 10]
NoteLengths ==
    (0..NoteSlack) \cup ((NoteLimit - NoteSlack)..(NoteLimit + NoteSlack))

InputLists == UNION { [1..n -> RefShapes] : n \in 0..MaxInputs }

PureQueue == [j \in Jobs |-> MkJob("Queued", TRUE, Some("Auto"), None, FreshFields)]

Call(fn, arg) == [fn |-> fn, arg |-> arg, ret |-> None]

InitPure ==
    /\ queue = PureQueue
    /\ queue0 = queue
    /\ log = <<>>
    /\ pc = [r \in Runners |-> IF r = "r1" THEN "call" ELSE "idle"]
    /\ items = [r \in Runners |-> <<>>]
    /\ idx = [r \in Runners |-> 1]
    /\ \/ /\ env = [r \in Runners |-> NoEnv]
          /\ \E n \in NoteLengths :
               loc = [r \in Runners |->
                        IF r = "r1" THEN Call("notion_update_status", MkNote(n))
                        ELSE NoLoc]
       \/ /\ \E o \in BOOLEAN :
               env = [r \in Runners |->
                        IF r = "r1" THEN [NoEnv EXCEPT !.token = TRUE, !.db = TRUE,
                                                       !.openai = o]
                        ELSE NoEnv]
          /\ \E resp \in ModelResponses :
               loc = [r \in Runners |->
                        IF r = "r1" THEN Call("call_model", resp) ELSE NoLoc]
       \/ /\ env = [r \in Runners |-> NoEnv]
          /\ \E inputs \in InputLists, context \in {"", "ctx"} :
               loc = [r \in Runners |->
                        IF r = "r1" THEN Call("build_prompt", <<context, inputs>>)
                        ELSE NoLoc]

Return(r, value) ==
    /\ loc' = [loc EXCEPT ![r].ret = Some(value)]
    /\ pc' = [pc EXCEPT ![r] = "returned"]

\* notion_update_status(page 1, "Running", None, None, note), the PATCH
\* succeeding: the result kept is the note the page then holds.
ApplyUpdateStatus(r) ==
    /\ pc[r] = "call" /\ loc[r].fn = "notion_update_status"
    /\ queue' = notion_update_status(queue, 1, "Running", None, None,
                                     Some(loc[r].arg))
    /\ Return(r, queue'[1].note[1])
    /\ UNCHANGED <<queue0, log, env, items, idx>>

ApplyCallModel(r) ==
    /\ pc[r] = "call" /\ loc[r].fn = "call_model"
    /\ Return(r, call_model(env[r], loc[r].arg))
    /\ UNCHANGED <<queue, queue0, log, env, items, idx>>

ApplyBuildPrompt(r) ==
    /\ pc[r] = "call" /\ loc[r].fn = "build_prompt"
    /\ Return(r, build_prompt("job", "", loc[r].arg[1], loc[r].arg[2], "Auto"))
    /\ UNCHANGED <<queue, queue0, log, env, items, idx>>

NextPure ==
    \/ ApplyUpdateStatus("r1")
    \/ ApplyCallModel("r1")
    \/ ApplyBuildPrompt("r1")

PureSpec == InitPure /\ [][NextPure]_vars

\* ============================================================ the claims
Terminal == {"Done", "Needs Review"}

\* The positions of the log, and the events of interest.
Positions == 1..Len(log)
IsWrite(e) == e.op = "update" /\ e.out = "ok"
IsTerminalWrite(e) == IsWrite(e) /\ e.status # "Running"
QueueFailed(r) ==
    \E i \in Positions :
        log[i].r = r /\ log[i].op \in {"list", "update"} /\ log[i].out = "raise"
\* The run of r is over and no call to the queue failed in it.
EndedWithoutQueueFailure(r) == pc[r] \in {"done", "crashed"}

\* The gate and the confidence the terminal write of job j recorded.
NotedGate(j) == queue[j].note[1][2]
Recorded(j) == queue[j].confidence[1]

\* C1: a terminal write sets Done exactly when the job's mode is "Auto" and
\* the confidence is at least the gate; otherwise it sets Needs Review, and
\* it sets nothing else.
C1_GateDecision ==
    \A i \in Positions :
        IsTerminalWrite(log[i]) =>
            LET j == log[i].job
            IN  /\ log[i].status \in Terminal
                /\ queue[j].status = log[i].status
                /\ (log[i].status = "Done") <=>
                     (queue[j].mode = Some("Auto") /\ Recorded(j) >= NotedGate(j))

\* One job went to Done on a confidence equal to its gate, another went to
\* Needs Review although its confidence reached its gate (its mode is not Auto).
C1_Witness ==
    \E i, k \in Positions :
        /\ IsTerminalWrite(log[i]) /\ log[i].status = "Done"
        /\ Recorded(log[i].job) = NotedGate(log[i].job)
        /\ IsTerminalWrite(log[k]) /\ log[k].status = "Needs Review"
        /\ queue[log[k].job].mode = Some("Needs Review")
        /\ Recorded(log[k].job) > NotedGate(log[k].job)

\* C2: a model call or a publish call for a job comes after a successful
\* Running write for that job by the same run, and the job is not Queued.
C2_RunningBeforeSideEffects ==
    /\ \A i \in Positions :
         log[i].op \in {"model", "publish"} =>
            /\ \E k \in 1..(i - 1) :
                 /\ IsWrite(log[k]) /\ log[k].status = "Running"
                 /\ log[k].job = log[i].job /\ log[k].r = log[i].r
            /\ queue[log[i].job].status # "Queued"
    /\ \A r \in Runners :
         pc[r] \in {"model", "publish", "terminal"} =>
            queue[items[r][idx[r]].id].status # "Queued"

\* A job has been sent to the model and published.
C2_Witness ==
    \E i, k \in Positions :
        /\ log[i].op = "model" /\ log[k].op = "publish"
        /\ log[i].job = log[k].job

\* C3: a run that ended with no failed queue call has left every job it
\* listed in Done or Needs Review.
C3_EveryListedJobTerminal ==
    \A r \in Runners :
        EndedWithoutQueueFailure(r) =>
            \A k \in 1..Len(items[r]) :
                queue[items[r][k].id].status \in Terminal

\* C4: call_model lets no exception out, and when it failed inside, the
\* orchestrator holds confidence 0 and the error marker.
C4_CallModelNeverRaises ==
    \A i \in Positions :
        log[i].op = "model" =>
            /\ log[i].out # "raise"
            /\ (log[i].status = "failed" /\ i = Len(log)) =>
                 /\ pc[log[i].r] = "publish"
                 /\ loc[log[i].r].conf = 0
                 /\ loc[log[i].r].text = "[MODEL ERROR]"

\* C5: when the model call of a job failed and the run ended with no failed
\* queue call, the job is in Needs Review with confidence 0.
C5_ModelFailureNeedsReview ==
    \A i \in Positions :
        (/\ log[i].op = "model" /\ log[i].status = "failed"
         /\ EndedWithoutQueueFailure(log[i].r)) =>
            /\ queue[log[i].job].status = "Needs Review"
            /\ queue[log[i].job].confidence = Some(0)

\* C6: create_google_doc lets no exception out, and every terminal write
\* leaves a proof URL on the job.
C6_PublishNeverRaises ==
    \A i \in Positions :
        /\ log[i].op = "publish" => log[i].out # "raise"
        /\ IsTerminalWrite(log[i]) => queue[log[i].job].proofUrl # None

\* Where a run that stopped on a failed queue call leaves the jobs: those
\* before the current one terminal, those after it Queued, the current one
\* Queued if its Running write failed and Running if its terminal write
\* failed; the jobs it did not list as they were.
AbortLayout(r) ==
    LET last == log[Len(log)]
    IN  /\ \A k \in 1..Len(items[r]) :
             LET st == queue[items[r][k].id].status
             IN  /\ k < idx[r] => st \in Terminal
                 /\ k > idx[r] => st = "Queued"
                 /\ k = idx[r] =>
                      st = IF last.status = "Running" THEN "Queued" ELSE "Running"
        /\ \A j \in Jobs :
             (\A k \in 1..Len(items[r]) : items[r][k].id # j) =>
                queue[j] = queue0[j]

\* C7: once a queue call of the run has failed, no call follows and no job
\* changes, and the jobs are left as AbortLayout says.
C7_QueueFailureAborts ==
    /\ [](QueueFailed("r1") => AbortLayout("r1"))
    /\ [][QueueFailed("r1") => (queue' = queue /\ log' = log /\ pc' = pc)]_vars

\* The terminal write of the second job failed after the first job finished.
C7_Witness ==
    /\ QueueFailed("r1")
    /\ idx["r1"] = 2
    /\ log[Len(log)].status # "Running"

\* The documented gate of job j: its own ConfidenceGate, or 0.7 without one.
OwnGate(j) == IF queue[j].gate = None THEN 70 ELSE queue[j].gate[1]

\* C8: the gate of the decision is the job's own ConfidenceGate when it has
\* one, 0 included, and 0.7 when it has none.
C8_GateIsJobsOwn ==
    \A i \in Positions :
        IsTerminalWrite(log[i]) => NotedGate(log[i].job) = OwnGate(log[i].job)

\* C9: a process started without the token or the database id stops at the
\* assert: it makes no call and no job changes.
C9_MissingConfigStopsAtStartup ==
    \A r \in Runners :
        (pc[r] # "idle" /\ ~(env[r].token /\ env[r].db)) =>
            /\ pc[r] = "assert_failed"
            /\ \A i \in Positions : log[i].r # r
            /\ queue = queue0

C9_Witness == pc["r1"] = "assert_failed" /\ ~env["r1"].token

\* C10: the Running write changes the status and the note of its job and
\* nothing else, and writing it again changes nothing; a terminal write
\* replaces the proof URL, the confidence and the note.
C10_WriteTouchesOnlyGivenFields ==
    (log # <<>> /\ IsWrite(log[Len(log)])) =>
        LET e == log[Len(log)]
            j == e.job
        IN  /\ \A o \in Jobs \ {j} : queue[o].status = "Queued" => queue[o] = queue0[o]
            /\ e.status = "Running" =>
                 /\ queue[j] = [queue0[j] EXCEPT !.status = "Running",
                                                 !.note = Some(NoteStarted)]
                 /\ notion_update_status(queue, j, "Running", None, None,
                                         Some(NoteStarted)) = queue
            /\ e.status # "Running" =>
                 /\ queue[j].proofUrl \notin {None, Some(OldUrl)}
                 /\ queue[j].confidence \notin {None, Some(55)}
                 /\ queue[j].note \notin {None, Some(OldNote), Some(NoteStarted)}
                 /\ queue[j].mode = queue0[j].mode /\ queue[j].gate = queue0[j].gate

\* Running was just written on a job that carried the proof URL and the
\* confidence of an earlier run.
C10_Witness ==
    /\ log # <<>>
    /\ IsWrite(log[Len(log)]) /\ log[Len(log)].status = "Running"
    /\ queue[log[Len(log)].job].proofUrl = Some(OldUrl)
    /\ queue[log[Len(log)].job].confidence = Some(55)

\* Whether r1 has returned from a call of fn in PureSpec.
Returned(fn) == pc["r1"] = "returned" /\ loc["r1"].fn = fn
Arg == loc["r1"].arg
Ret == loc["r1"].ret[1]

\* C11: the note sent has length min(len(note), 2000) and is a prefix of the
\* note given.
C11_NoteTruncation ==
    Returned("notion_update_status") =>
        /\ Len(Ret) = Min(Len(Arg), 2000)
        /\ \A i \in 1..Len(Ret) : Ret[i] = Arg[i]

\* A note of more than 2000 characters was sent.
C11_Witness ==
    Returned("notion_update_status") /\ Len(Arg) > 2000 /\ Len(Ret) = 2000

\* C12: a parsed object with no confidence key or a confidence that is no
\* number gives confidence 0.7 and the parsed text, not an error result.
C12_ConfidenceDefault ==
    (/\ Returned("call_model") /\ env["r1"].openai
     /\ Arg.kind \in {"json_dict", "embedded_dict"}
     /\ Arg.confidence \in {Absent, Null, Str("high")}) =>
        /\ ~Ret.raised
        /\ Ret.confidence = Num(70)
        /\ Ret.text = IF Truthy(Arg.text) THEN Arg.text ELSE Str("")

\* The url of a reference, and whether it is a link.
UrlOf(f) ==
    IF f.external # Absent THEN f.external[2]
    ELSE IF f.file # Absent THEN f.file[2] ELSE Absent
CarriesUrl(f) == UrlOf(f)[1] = "str" /\ UrlOf(f)[2] # ""
IsUrlLine(l) == l[1] = "-"

\* C13: the URL lines of the prompt are the links of the references that
\* carry one, one line each, in the order of the input; a reference without
\* a link gives no line.
C13_PromptUrlLines ==
    Returned("build_prompt") =>
        LET carrying == SelectSeq(Arg[2], CarriesUrl)
            lines    == SelectSeq(Ret, IsUrlLine)
        IN  /\ Len(lines) = Len(carrying)
            /\ \A i \in 1..Len(lines) : lines[i] = <<"-", UrlOf(carrying[i])[2]>>

\* The prompt of the inputs [{file: {}}, {external: {url: "https://x"}}].
C13_Witness ==
    /\ Returned("build_prompt")
    /\ Arg[2] = << [external |-> Absent, file |-> Obj(Absent)],
                   [external |-> Obj(Str("https://x")), file |-> Absent] >>
    /\ SelectSeq(Ret, IsUrlLine) = << <<"-", "https://x">> >>

\* The jobs the run of r listed, and the successful writes it made to job j.
Listed(r) == {items[r][k].id : k \in 1..Len(items[r])}
RunningWrites(r, j) ==
    {i \in Positions : /\ log[i].r = r /\ IsWrite(log[i])
                       /\ log[i].status = "Running" /\ log[i].job = j}
TerminalWrites(r, j) ==
    {i \in Positions : log[i].r = r /\ IsTerminalWrite(log[i]) /\ log[i].job = j}

\* C14: of the jobs the run listed at most one is Running, and Running is
\* written on the job after another in the listing only after the terminal
\* write of that other.
C14_OneJobAtATime ==
    [](/\ Cardinality({j \in Listed("r1") : queue[j].status = "Running"}) <= 1
       /\ \A k \in 2..Len(items["r1"]) :
            \A i \in RunningWrites("r1", items["r1"][k].id) :
               \E m \in TerminalWrites("r1", items["r1"][k - 1].id) : m < i)

\* Running was written on the second listed job.
C14_Witness ==
    /\ Len(items["r1"]) >= 2
    /\ RunningWrites("r1", items["r1"][2].id) # {}

C16_OnlyListedJobsTouched ==
    [](/\ \A j \in Jobs :
            ~(queue0[j].status = "Queued" /\ queue0[j].due) =>
               /\ queue[j] = queue0[j]
               /\ j \notin Listed("r1")
               /\ \A i \in Positions : log[i].job # j
       /\ (log # <<>> /\ log[Len(log)].op = "list") => queue = queue0)

\* The run returned having processed one job and left alone another that was
\* Queued but not due.
C16_Witness ==
    /\ pc["r1"] = "done"
    /\ \E j \in Jobs : queue0[j].status = "Queued" /\ ~queue0[j].due
    /\ \E j \in Jobs : TerminalWrites("r1", j) # {}

\* C18: a job the run set to Done has mode Auto, a proof URL, and a recorded
\* confidence that is the one noted with the gate and is at least the gate
\* used and the job's own gate; the step that makes a job terminal sets its
\* proof URL, confidence and note from the values the run holds.
C18_DoneIsAutoWithProof ==
    /\ [](\A j \in Jobs :
            (TerminalWrites("r1", j) # {} /\ queue[j].status = "Done") =>
               /\ queue[j].mode = Some("Auto")
               /\ queue[j].proofUrl # None
               /\ queue[j].confidence # None
               /\ Recorded(j) = queue[j].note[1][3]
               /\ Recorded(j) >= NotedGate(j)
               /\ Recorded(j) >= OwnGate(j))
    /\ [][\A j \in Jobs :
            (queue'[j].status # queue[j].status /\ queue'[j].status \in Terminal) =>
               /\ queue'[j].proofUrl = loc["r1"].proof_url
               /\ queue'[j].confidence = Some(loc["r1"].conf)
               /\ queue'[j].note = Some(main_note(loc["r1"].gate, loc["r1"].conf))]_vars

\* A job was set to Done with a document URL and confidence 0.9.
C18_Witness ==
    \E j \in Jobs :
        /\ TerminalWrites("r1", j) # {} /\ queue[j].status = "Done"
        /\ queue[j].proofUrl = Some(DocUrl)
        /\ Recorded(j) = 90

\* Job j was left in Running by the run of r: r wrote Running on it and its
\* run then stopped on a failed queue call.
LeftRunning(r, j) ==
    /\ pc[r] = "aborted"
    /\ RunningWrites(r, j) # {}
    /\ TerminalWrites(r, j) = {}

\* C17: a job left in Running by a run that stopped on a failed queue call
\* stays Running: the later run does not list it and makes no call for it.
C17_StuckJobStaysRunning ==
    \A j \in Jobs :
        LeftRunning("r1", j) =>
            /\ queue[j].status = "Running"
            /\ j \notin Listed("r2")
            /\ \A i \in Positions : log[i].r = "r2" => log[i].job # j

\* The first run left a job in Running; the later run processed another job
\* and returned.
C17_Witness ==
    \E j, o \in Jobs :
        /\ LeftRunning("r1", j)
        /\ pc["r2"] = "done"
        /\ TerminalWrites("r2", o) # {}

\* The calls of kind op the run of r made for job j.
Calls(r, op, j) ==
    {i \in Positions : log[i].r = r /\ log[i].op = op /\ log[i].job = j}

SameCall(a, b) ==
    /\ a.r = b.r /\ a.job = b.job /\ a.op = b.op
    /\ a.op = "update" => ((a.status = "Running") <=> (b.status = "Running"))
IsRunningWrite(e) == IsWrite(e) /\ e.status = "Running"

====
